---- MODULE Spec2Model ----
(***************************************************************************)
(* Model of the two scripts of the repository:                             *)
(*   url_checker.py    - validate_source, check_url, process_file          *)
(*   zipcode_finder.py - lookup_postcode, the row loop, trim and save      *)
(* Python strings that the code inspects (bodies, cell values, console     *)
(* answers, paths) are sequences of one-character strings, so that         *)
(* strip(), lower(), str() and the substring test are computed.            *)
(***************************************************************************)
EXTENDS Integers, Sequences, FiniteSets, TLC

\* ------------------------------------------------------------------ bounds
MaxRetriesUrl == 3
MaxRetriesGeo == 5
NumRows == 2
NumUrls == 2

\* --------------------------------------------------------- python values
PyNone == [t |-> "none", n |-> 0, s |-> << >>]
PyInt(i) == [t |-> "int", n |-> i, s |-> << >>]
PyStr(q) == [t |-> "str", n |-> 0, s |-> q]

\* bool(v): None, 0 and "" are falsy
Truthy(v) == CASE v.t = "none" -> FALSE
               [] v.t = "int" -> v.n # 0
               [] OTHER -> Len(v.s) > 0

\* a or b
PyOr(a, b) == IF Truthy(a) THEN a ELSE b

UpperCase == <<"A","B","C","D","E","F","G","H","I","J","K","L","M",
               "N","O","P","Q","R","S","T","U","V","W","X","Y","Z">>
LowerCase == <<"a","b","c","d","e","f","g","h","i","j","k","l","m",
               "n","o","p","q","r","s","t","u","v","w","x","y","z">>
Digits == <<"0","1","2","3","4","5","6","7","8","9">>
Whitespace == {" ", "\t", "\n"}

LowerChar(c) == IF \E i \in 1..26 : UpperCase[i] = c
                THEN LowerCase[CHOOSE i \in 1..26 : UpperCase[i] = c]
                ELSE c

\* str.lower()
Lower(q) == [i \in 1..Len(q) |-> LowerChar(q[i])]

RECURSIVE LStrip(_)
LStrip(q) == IF Len(q) > 0 /\ q[1] \in Whitespace THEN LStrip(Tail(q)) ELSE q

RECURSIVE RStrip(_)
RStrip(q) == IF Len(q) > 0 /\ q[Len(q)] \in Whitespace
             THEN RStrip(SubSeq(q, 1, Len(q) - 1)) ELSE q

\* str.strip()
Strip(q) == RStrip(LStrip(q))

\* needle in hay
Contains(hay, needle) ==
    \E i \in 0..(Len(hay) - Len(needle)) : SubSeq(hay, i + 1, i + Len(needle)) = needle

RECURSIVE StrInt(_)
StrInt(i) == IF i < 10 THEN <<Digits[i + 1]>>
             ELSE StrInt(i \div 10) \o <<Digits[(i % 10) + 1]>>

\* str(v)
Str(v) == CASE v.t = "none" -> <<"N","o","n","e">>
            [] v.t = "int" -> StrInt(v.n)
            [] OTHER -> v.s

Min(a, b) == IF a <= b THEN a ELSE b

\* random.uniform(a, b), in whole seconds
Uniform(a, b) == a..b

\* for attempt in range(1, stop_inclusive + 1): attempt is the value of the
\* last iteration run (0 before the first); is there another iteration?
\* (variant: range(1, stop_inclusive + 2), one iteration too many)
RangeHasNextOffByOne(done, stop_inclusive) == done <= stop_inclusive
RangeHasNext(done, stop_inclusive) == done < stop_inclusive

\* ------------------------------------------------------------ url_checker
RESPONSE_CODES == [c \in {100,101,200,201,202,204,301,302,304,400,401,403,404,500,502,503,504} |->
    CASE c = 100 -> "Continue" [] c = 101 -> "Switching Protocols"
      [] c = 200 -> "OK" [] c = 201 -> "Created" [] c = 202 -> "Accepted"
      [] c = 204 -> "No Content" [] c = 301 -> "Moved Permanently"
      [] c = 302 -> "Found" [] c = 304 -> "Not Modified"
      [] c = 400 -> "Bad Request" [] c = 401 -> "Unauthorized"
      [] c = 403 -> "Forbidden" [] c = 404 -> "Not Found"
      [] c = 500 -> "Internal Server Error" [] c = 502 -> "Bad Gateway"
      [] c = 503 -> "Service Unavailable" [] OTHER -> "Gateway Timeout"]

\* RESPONSE_CODES.get(code, "Unknown")
ResponseLabel(code) == IF code \in DOMAIN RESPONSE_CODES THEN RESPONSE_CODES[code] ELSE "Unknown"

Captcha == <<"c","a","p","t","c","h","a">>
PlainBody == <<"o","k">>
ChallengeBody == <<"a"," ","C","a","p","t","c","h","A","!">>

\* what session.get(url, timeout=10) can do: return a response, return a
\* response whose body cannot be read (r.text raises), or raise
Resp(code, text) == [kind |-> "response", status_code |-> code, text |-> text, err |-> "none"]
Unreadable(code) == [kind |-> "unreadable", status_code |-> code, text |-> PyNone, err |-> "UnicodeError"]
HttpRaise(e) == [kind |-> "raise", status_code |-> 0, text |-> PyNone, err |-> e]

HttpResults ==
    { Resp(200, PyStr(PlainBody)), Resp(200, PyNone), Resp(200, PyStr(ChallengeBody)),
      Resp(404, PyStr(PlainBody)),
      Resp(500, PyStr(PlainBody)), Resp(418, PyStr(PlainBody)),
      Resp(429, PyStr(PlainBody)), Resp(503, PyStr(PlainBody)),
      Unreadable(200),
      HttpRaise("ConnectionError") }

\* code in (429, 503) or 'captcha' in (r.text or '').lower()
\* (the body is read only when the status is neither 429 nor 503)
\* (variant: every 5xx treated as a retry signal)
IsRetrySignalServerErrors(r) ==
    \/ r.status_code \in {429, 503} \/ r.status_code >= 500
    \/ Contains(Lower(PyOr(r.text, PyStr(<< >>)).s), Captcha)
IsRetrySignal(r) ==
    \/ r.status_code \in {429, 503}
    \/ Contains(Lower(PyOr(r.text, PyStr(<< >>)).s), Captcha)

\* does evaluating lines 198-200 raise (caught by "except Exception")?
HttpAttemptRaises(r) ==
    \/ r.kind = "raise"
    \/ r.kind = "unreadable" /\ r.status_code \notin {429, 503}

SoftWait == Uniform(5, 10)
ErrorWait == Uniform(2, 4)

DefaultMaxRetries == 3
FailedAfterRetries == [code |-> PyNone, comment |-> "Failed after retries"]


\* ---------------------------------------------------------- zipcode_finder
\* what geolocator.geocode(address, addressdetails=True) can do: return None,
\* return a Location (raw with or without 'address' / 'postcode'), or raise
NoLocation == [kind |-> "none", has_address |-> FALSE, has_postcode |-> FALSE,
               postcode |-> << >>, err |-> "none"]
Location(has_address, has_postcode, postcode) ==
    [kind |-> "location", has_address |-> has_address,
     has_postcode |-> has_address /\ has_postcode, postcode |-> postcode, err |-> "none"]
GeoRaise(e) == [kind |-> "raise", has_address |-> FALSE, has_postcode |-> FALSE,
                postcode |-> << >>, err |-> e]

Postcode1 == <<"9","0","2","1","0">>

GeoResults ==
    { NoLocation, Location(FALSE, FALSE, << >>), Location(TRUE, FALSE, << >>),
      Location(TRUE, TRUE, Postcode1),
      GeoRaise("GeocoderTimedOut"), GeoRaise("GeocoderUnavailable"),
      GeoRaise("RequestException"), GeoRaise("GeocoderQuotaExceeded") }

\* except (GeocoderTimedOut, GeocoderUnavailable, RequestException)
CaughtGeoErrors == {"GeocoderTimedOut", "GeocoderUnavailable", "RequestException"}

\* lines 79-81: the postcode of the location, or ""
\* (variant: the key is never found)
ExtractPostcodeWrongKey(loc) == << >>
ExtractPostcode(loc) ==
    IF loc.kind = "location" /\ loc.has_address /\ loc.has_postcode
    THEN loc.postcode ELSE << >>

RECURSIVE Pow2(_)
Pow2(k) == IF k = 0 THEN 1 ELSE 2 * Pow2(k - 1)

\* wait = min(20, 2 ** attempt)
\* (variant: the cap is missing)
ExpWaitUncapped(k) == Pow2(k)
ExpWait(k) == Min(20, Pow2(k))

DefaultRetries == 3

\* line 92: not zip_cell.value or str(zip_cell.value).strip() == ""
IsBlankCell(v) == ~Truthy(v) \/ Strip(Str(v)) = << >>

\* lines 104-107: c.value = c.value.strip() for str cells
TrimCell(v) == IF v.t = "str" THEN PyStr(Strip(v.s)) ELSE v

\* ------------------------------------------------------- validate_source
\* the file system as Path.is_dir / Path.is_file see it; Path("") is "."
DirPaths == { << >>, <<"d">> }
FilePaths == { <<"f">> }
is_dir(p) == p \in DirPaths
is_file(p) == p \in FilePaths

PathInputs == { <<"d">>, <<"f">>, <<"x">>, <<" ","f","\n">>, << >> }
AgainInputs == { <<"n">>, <<"N","o"," ">>, <<"y">>, << >>, <<"n","o","p","e">> }

max_tries == 3

\* lines 102-105: is src acceptable for the selected mode?
\* (variant: the mode is ignored)
PathAcceptedAnyKind(all_files, p) == is_dir(p) \/ is_file(p)
PathAccepted(all_files, p) == (all_files /\ is_dir(p)) \/ (~all_files /\ is_file(p))

\* line 110: again in ('n', 'no')
Declines(ans) == Lower(Strip(ans)) \in { <<"n">>, <<"n","o">> }


\* ------------------------------------------------------------------ state
VARIABLES
    prog,            \* which entry point runs
    pc,              \* its position
    exit_status,     \* "running", or the process's exit status
    \* the frame of the lookup in progress (check_url / lookup_postcode)
    fn, url, address, max_retries, retries, attempt, lpc,
    result,          \* check_url's return value (code, comment)
    postcode,        \* lookup_postcode's return value
    exc,             \* the exception leaving the lookup, or "none"
    trace,           \* what the transport did on each call of this lookup
    slept,           \* time.sleep calls made inside this lookup
    wait,            \* the duration of the last of them
    log_error,       \* logging.error of line 86 was emitted by this lookup
    \* process_file
    urls,            \* URLs of the file not yet iterated
    urls0,           \* the URLs the extractor returned
    rows,            \* writer.writerow calls so far
    \* zipcode_finder
    ws, ws0,         \* the sheet's data rows now, and as loaded
    row,             \* the row loop's index
    looked,          \* rows for which lookup_postcode was called
    saved,           \* wb.save has run
    \* validate_source
    check_all_files, tries,
    inputs,          \* the stripped answers to the path prompt
    answers,         \* the raw answers to "Try again?"
    source           \* the path validate_source returned

lookupVars == <<fn, url, address, max_retries, retries, attempt, lpc, result,
                postcode, exc, trace, slept, wait, log_error>>
fileVars == <<urls, urls0, rows>>
sheetVars == <<ws, ws0, row, looked, saved>>
validateVars == <<check_all_files, tries, inputs, answers, source>>
vars == <<prog, pc, exit_status, lookupVars, fileVars, sheetVars, validateVars>>

Urls == {"http://example.com", "http://example.org/a?b=1", "https://example.net/"}
Addresses == { <<"4","5","6"," ","E","l","m">>, << >> }
NoResult == [code |-> PyNone, comment |-> ""]

ZipValues == { PyNone, PyStr(<< >>), PyStr(<<" ","\t">>), PyStr(<<"0","7"," ">>),
               PyInt(0), PyInt(501) }
AddressValues == { PyNone, PyStr(<<"1"," ","M","a","i","n"," ">>) }
Cells == [zip : ZipValues, full_address : AddressValues, fill : {"none"}]
max_row == 1 + NumRows
DataRows == 2..max_row

\* ------------------------------------------------------------------- Init
NoLookup ==
    /\ fn = "none" /\ url = "" /\ address = << >>
    /\ max_retries = 0 /\ retries = 0 /\ attempt = 0 /\ lpc = "idle"
    /\ result = NoResult /\ postcode = << >> /\ exc = "none"
    /\ trace = << >> /\ slept = 0 /\ wait = 0 /\ log_error = FALSE

NoFile == urls = {} /\ urls0 = {} /\ rows = << >>
NoSheet == ws = << >> /\ ws0 = << >> /\ row = 0 /\ looked = {} /\ saved = FALSE
NoValidate == check_all_files = FALSE /\ tries = 0 /\ inputs = << >>
              /\ answers = << >> /\ source = << >>

\* the lookup's frame is gone after its caller took the return value
ResetLookup ==
    /\ fn' = "none" /\ url' = "" /\ address' = << >>
    /\ max_retries' = 0 /\ retries' = 0 /\ attempt' = 0 /\ lpc' = "idle"
    /\ result' = NoResult /\ postcode' = << >> /\ exc' = "none"
    /\ trace' = << >> /\ slept' = 0 /\ wait' = 0 /\ log_error' = FALSE

\* check_url(session, u, m) is entered
EnterCheckUrl(u, m) ==
    /\ fn' = "check_url" /\ url' = u /\ address' = << >>
    /\ max_retries' = m /\ retries' = 0 /\ attempt' = 0 /\ lpc' = "loop"
    /\ result' = NoResult /\ postcode' = << >> /\ exc' = "none"
    /\ trace' = << >> /\ slept' = 0 /\ wait' = 0 /\ log_error' = FALSE

\* lookup_postcode(a, r) is entered
EnterLookupPostcode(a, r) ==
    /\ fn' = "lookup_postcode" /\ url' = "" /\ address' = a
    /\ max_retries' = 0 /\ retries' = r /\ attempt' = 0 /\ lpc' = "loop"
    /\ result' = NoResult /\ postcode' = << >> /\ exc' = "none"
    /\ trace' = << >> /\ slept' = 0 /\ wait' = 0 /\ log_error' = FALSE

\* a caller about to call check_url with arguments of its choice
InitCheckUrl ==
    /\ prog = "check_url" /\ pc = "start" /\ exit_status = "running"
    /\ NoLookup /\ NoFile /\ NoSheet /\ NoValidate

\* a caller about to call lookup_postcode with arguments of its choice
InitLookupPostcode ==
    /\ prog = "lookup_postcode" /\ pc = "start" /\ exit_status = "running"
    /\ NoLookup /\ NoFile /\ NoSheet /\ NoValidate

\* process_file(path, writer, session) after urls = extractor(path)
InitProcessFile ==
    /\ prog = "process_file" /\ pc = "loop" /\ exit_status = "running"
    /\ NoLookup /\ NoSheet /\ NoValidate
    /\ urls \in {s \in SUBSET Urls : Cardinality(s) <= NumUrls}
    /\ urls0 = urls /\ rows = << >>

\* zipcode_finder after the workbook is loaded and the headers are mapped
InitZipcodeFinder ==
    /\ prog = "zipcode_finder" /\ pc = "rows" /\ exit_status = "running"
    /\ NoLookup /\ NoFile /\ NoValidate
    /\ ws \in [DataRows -> Cells]
    /\ ws0 = ws /\ row = 2 /\ looked = {} /\ saved = FALSE

InitValidateSource ==
    /\ prog = "validate_source" /\ pc = "prompt" /\ exit_status = "running"
    /\ NoLookup /\ NoFile /\ NoSheet
    /\ check_all_files \in BOOLEAN
    /\ tries = 0 /\ inputs = << >> /\ answers = << >> /\ source = << >>

Init == \/ InitCheckUrl
        \/ InitLookupPostcode
        \/ InitProcessFile
        \/ InitZipcodeFinder
        \/ InitValidateSource

\* -------------------------------------------------------------- check_url
\* check_url(session, url, max_retries) called on its own
CallCheckUrl ==
    /\ prog = "check_url" /\ pc = "start"
    /\ \E u \in Urls, m \in (1..MaxRetriesUrl) \cup {DefaultMaxRetries} : EnterCheckUrl(u, m)
    /\ pc' = "called"
    /\ UNCHANGED <<prog, exit_status, fileVars, sheetVars, validateVars>>

\* one iteration of the for loop of check_url (lines 196-208)
CheckUrlAttempt ==
    /\ fn = "check_url" /\ lpc = "loop"
    /\ RangeHasNext(attempt, max_retries)
    /\ attempt' = attempt + 1
    /\ \E r \in HttpResults :
        /\ trace' = Append(trace, r)
        /\ IF HttpAttemptRaises(r)
           THEN \* except Exception: time.sleep(random.uniform(2,4))
                /\ \E w \in ErrorWait : wait' = w
                /\ slept' = slept + 1
                /\ UNCHANGED <<lpc, result>>
           ELSE IF IsRetrySignal(r)
           THEN \* wait = random.uniform(5, 10); time.sleep(wait); continue
                /\ \E w \in SoftWait : wait' = w
                /\ slept' = slept + 1
                /\ UNCHANGED <<lpc, result>>
           ELSE \* return code, RESPONSE_CODES.get(code, "Unknown")
                /\ result' = [code |-> PyInt(r.status_code),
                              comment |-> ResponseLabel(r.status_code)]
                /\ lpc' = "returned"
                /\ UNCHANGED <<slept, wait>>
    /\ UNCHANGED <<prog, pc, exit_status, fn, url, address, max_retries, retries,
                   postcode, exc, log_error, fileVars, sheetVars, validateVars>>

\* the loop ran out: return None, "Failed after retries" (line 209)
CheckUrlExhausted ==
    /\ fn = "check_url" /\ lpc = "loop"
    /\ ~RangeHasNext(attempt, max_retries)
    /\ result' = FailedAfterRetries
    /\ lpc' = "returned"
    /\ UNCHANGED <<prog, pc, exit_status, fn, url, address, max_retries, retries,
                   attempt, postcode, exc, trace, slept, wait, log_error,
                   fileVars, sheetVars, validateVars>>

\* -------------------------------------------------------- lookup_postcode
\* lookup_postcode(address, retries) called on its own
CallLookupPostcode ==
    /\ prog = "lookup_postcode" /\ pc = "start"
    /\ \E a \in Addresses, r \in (1..MaxRetriesGeo) \cup {DefaultRetries} :
        EnterLookupPostcode(a, r)
    /\ pc' = "called"
    /\ UNCHANGED <<prog, exit_status, fileVars, sheetVars, validateVars>>

\* one iteration of the for loop of lookup_postcode (lines 76-85)
LookupPostcodeAttempt ==
    /\ fn = "lookup_postcode" /\ lpc = "loop"
    /\ RangeHasNext(attempt, retries)
    /\ attempt' = attempt + 1
    /\ \E loc \in GeoResults :
        /\ trace' = Append(trace, loc)
        /\ IF loc.kind # "raise"
           THEN /\ postcode' = ExtractPostcode(loc)
                /\ lpc' = "returned"
                /\ UNCHANGED <<exc, slept, wait>>
           ELSE IF loc.err \in CaughtGeoErrors
           THEN /\ wait' = ExpWait(attempt')
                /\ slept' = slept + 1
                /\ UNCHANGED <<postcode, lpc, exc>>
           ELSE \* no except clause matches: the exception leaves the function
                /\ exc' = loc.err
                /\ lpc' = "raised"
                /\ UNCHANGED <<postcode, slept, wait>>
    /\ UNCHANGED <<prog, pc, exit_status, fn, url, address, max_retries, retries,
                   result, log_error, fileVars, sheetVars, validateVars>>

\* the loop ran out: logging.error(...); return "" (lines 86-87)
LookupPostcodeExhausted ==
    /\ fn = "lookup_postcode" /\ lpc = "loop"
    /\ ~RangeHasNext(attempt, retries)
    /\ log_error' = TRUE
    /\ postcode' = << >>
    /\ lpc' = "returned"
    /\ UNCHANGED <<prog, pc, exit_status, fn, url, address, max_retries, retries,
                   attempt, result, exc, trace, slept, wait,
                   fileVars, sheetVars, validateVars>>


\* ----------------------------------------------------------- process_file
\* for url in urls: human_sleep(); check_url(session, url) is entered
ProcessFileNext ==
    /\ prog = "process_file" /\ pc = "loop"
    /\ \E u \in urls :
        /\ urls' = urls \ {u}
        /\ EnterCheckUrl(u, DefaultMaxRetries)
    /\ pc' = "checking"
    /\ UNCHANGED <<prog, exit_status, urls0, rows, sheetVars, validateVars>>

\* code, comment = check_url(...) returned; writer.writerow({...})
ProcessFileWriteRow ==
    /\ prog = "process_file" /\ pc = "checking" /\ lpc = "returned"
    /\ rows' = Append(rows, [URL |-> url,
                             response_code |-> PyOr(result.code, PyStr(<< >>)),
                             comment |-> result.comment])
    /\ ResetLookup
    /\ pc' = "loop"
    /\ UNCHANGED <<prog, exit_status, urls, urls0, sheetVars, validateVars>>

\* the for loop is over: process_file returns
ProcessFileDone ==
    /\ prog = "process_file" /\ pc = "loop" /\ urls = {}
    /\ pc' = "done"
    /\ UNCHANGED <<prog, exit_status, lookupVars, fileVars, sheetVars, validateVars>>

\* --------------------------------------------------------- zipcode_finder
\* one pass of the row loop up to the call of lookup_postcode (lines 90-94)
RowLoopStep ==
    /\ prog = "zipcode_finder" /\ pc = "rows" /\ row <= max_row
    /\ IF IsBlankCell(ws[row].zip)
       THEN /\ EnterLookupPostcode(PyOr(ws[row].full_address, PyStr(<< >>)).s,
                                   DefaultRetries)
            /\ looked' = looked \cup {row}
            /\ pc' = "lookup"
            /\ UNCHANGED row
       ELSE /\ row' = row + 1
            /\ UNCHANGED <<pc, looked, lookupVars>>
    /\ UNCHANGED <<prog, exit_status, ws, ws0, saved, fileVars, validateVars>>

\* postcode = lookup_postcode(address) returned (lines 95-101)
RowLookupReturned ==
    /\ prog = "zipcode_finder" /\ pc = "lookup" /\ lpc = "returned"
    /\ ws' = IF Truthy(PyStr(postcode))
             THEN [ws EXCEPT ![row].zip = PyStr(postcode), ![row].fill = "yellow"]
             ELSE ws
    /\ row' = row + 1
    /\ pc' = "rows"
    /\ ResetLookup
    /\ UNCHANGED <<prog, exit_status, ws0, looked, saved, fileVars, validateVars>>

\* lookup_postcode raised: nothing at module level catches it, the script
\* ends with a traceback and exit status 1, before wb.save
RowLookupRaised ==
    /\ prog = "zipcode_finder" /\ pc = "lookup" /\ lpc = "raised"
    /\ pc' = "crashed"
    /\ exit_status' = "1"
    /\ UNCHANGED <<prog, lookupVars, fileVars, sheetVars, validateVars>>

\* the row loop is over: trim every str cell, wb.save(output_file)
TrimAndSave ==
    /\ prog = "zipcode_finder" /\ pc = "rows" /\ row > max_row
    /\ ws' = [r \in DOMAIN ws |->
                [ws[r] EXCEPT !.zip = TrimCell(@), !.full_address = TrimCell(@)]]
    /\ saved' = TRUE
    /\ pc' = "done"
    /\ exit_status' = "0"
    /\ UNCHANGED <<prog, lookupVars, fileVars, ws0, row, looked, validateVars>>

\* -------------------------------------------------------- validate_source
\* src = input(prompt).strip() and the two checks (lines 99-108)
ValidatePrompt ==
    /\ prog = "validate_source" /\ pc = "prompt"
    /\ tries < max_tries
    /\ \E typed \in PathInputs :
        LET src == Strip(typed) IN
        /\ inputs' = Append(inputs, src)
        /\ IF PathAccepted(check_all_files, src)
           THEN /\ source' = src
                /\ pc' = "returned"
                /\ UNCHANGED <<tries, exit_status>>
           ELSE /\ tries' = tries + 1
                /\ IF tries + 1 < max_tries
                   THEN pc' = "again" /\ UNCHANGED exit_status
                   ELSE \* the while loop ends: sys.exit(1), line 114
                        pc' = "exited" /\ exit_status' = "1"
                /\ UNCHANGED source
    /\ UNCHANGED <<prog, check_all_files, answers, lookupVars, fileVars, sheetVars>>

\* again = input("Try again? [Y/n]: ").strip().lower() (lines 109-112)
ValidateAgain ==
    /\ prog = "validate_source" /\ pc = "again"
    /\ \E typed \in AgainInputs :
        /\ answers' = Append(answers, typed)
        /\ IF Declines(typed)
           THEN pc' = "exited" /\ exit_status' = "1"
           ELSE pc' = "prompt" /\ UNCHANGED exit_status
    /\ UNCHANGED <<prog, check_all_files, tries, inputs, source,
                   lookupVars, fileVars, sheetVars>>

\* ------------------------------------------------------------------- Next
Next == \/ CallCheckUrl
        \/ CallLookupPostcode
        \/ CheckUrlAttempt
        \/ CheckUrlExhausted
        \/ LookupPostcodeAttempt
        \/ LookupPostcodeExhausted
        \/ ProcessFileNext
        \/ ProcessFileWriteRow
        \/ ProcessFileDone
        \/ RowLoopStep
        \/ RowLookupReturned
        \/ RowLookupRaised
        \/ TrimAndSave
        \/ ValidatePrompt
        \/ ValidateAgain

Spec == Init /\ [][Next]_vars


\* ============================================================== properties
\* the arguments and outcomes as the specification names them
MaxAttempts == IF fn = "check_url" THEN max_retries ELSE retries
Last(q) == q[Len(q)]

BodyOf(r) == PyOr(r.text, PyStr(<< >>)).s
SoftFailureHttp(r) ==
    r.kind # "raise" /\ (r.status_code \in {429, 503}
                         \/ (r.kind = "response" /\ Contains(Lower(BodyOf(r)), Captcha)))
TransportErrorHttp(r) == r.kind = "raise" \/ (r.kind = "unreadable" /\ ~SoftFailureHttp(r))
TerminalHttp(r) == r.kind = "response" /\ ~SoftFailureHttp(r)
LabelOf(code) == IF code \in DOMAIN RESPONSE_CODES THEN RESPONSE_CODES[code] ELSE "Unknown"
SuccessHttp(r) == [code |-> PyInt(r.status_code), comment |-> LabelOf(r.status_code)]

RetryableGeo(g) ==
    g.kind = "raise" /\ g.err \in {"GeocoderTimedOut", "GeocoderUnavailable", "RequestException"}
EmptyGeo(g) == g.kind = "none" \/ (g.kind = "location" /\ ~g.has_postcode)
SuccessGeo(g) == g.kind = "location" /\ g.has_postcode /\ g.postcode # << >>

Retryable(x) == IF fn = "check_url" THEN SoftFailureHttp(x) \/ TransportErrorHttp(x)
                ELSE RetryableGeo(x)
InLookup == fn \in {"check_url", "lookup_postcode"}
AllRetryable(q) == \A i \in 1..Len(q) : Retryable(q[i])

\* the Failed outcome: check_url's (None, "Failed after retries"); in
\* lookup_postcode the return of line 87 after the error of line 86
ReturnedFailed ==
    /\ lpc = "returned"
    /\ IF fn = "check_url" THEN result = FailedAfterRetries
       ELSE log_error /\ postcode = << >>

\* the transport of the scenario: 429 on calls 1..3, 200 afterwards
Scenario429x3 ==
    /\ fn = "check_url" /\ lpc = "returned"
    /\ url = "http://example.com" /\ max_retries = DefaultMaxRetries
    /\ \A i \in 1..Len(trace) :
        /\ trace[i].kind = "response"
        /\ trace[i].status_code = (IF i <= 3 THEN 429 ELSE 200)
        /\ ~Contains(Lower(BodyOf(trace[i])), Captcha)

\* C1 as stated: check_url with the default 3 attempts on "http://example.com",
\* against a transport answering 429 three times and 200 afterwards, returns
\* Success(200, "OK") after 3 retries.
C1_SuccessAfterThree429 ==
    Scenario429x3 => result = [code |-> PyInt(200), comment |-> "OK"] /\ slept = 3

\* C1 amended: in that scenario check_url returns (None, "Failed after
\* retries") after exactly 3 transport calls and 3 sleeps; the 200 is never
\* requested.
C1_FailedAfterThree429 ==
    Scenario429x3 => result = FailedAfterRetries /\ Len(trace) = 3 /\ slept = 3

C1_Witness == Scenario429x3 /\ Len(trace) = 3

\* C2 as stated: whatever the transport raises, no exception leaves
\* check_url or lookup_postcode; the caller always gets a terminal outcome.
C2_NoExceptionEscapes == lpc # "raised" /\ exc = "none"

\* C3: the calls made so far never exceed max_attempts, and a lookup whose
\* transport answered every call with a retryable condition returns only
\* after exactly max_attempts calls, with the Failed outcome.
C3_ExactlyMaxAttempts ==
    InLookup =>
        /\ Len(trace) <= MaxAttempts
        /\ attempt = Len(trace)
        /\ (lpc = "returned" /\ AllRetryable(trace)) =>
                Len(trace) = MaxAttempts /\ ReturnedFailed

C3_Witness ==
    /\ fn = "check_url" /\ max_retries = 3 /\ ReturnedFailed /\ Len(trace) = 3
    /\ SoftFailureHttp(trace[1]) /\ TransportErrorHttp(trace[2])
    /\ trace[3].status_code = 503

\* C4: a lookup whose transport answered k < max_attempts calls with a
\* retryable condition and the next call with a success returns that success
\* after k + 1 calls and k sleeps (none when k = 0).
C4_SuccessAfterKRetries ==
    (InLookup /\ lpc = "returned" /\ Len(trace) >= 1
       /\ AllRetryable(SubSeq(trace, 1, Len(trace) - 1))
       /\ (IF fn = "check_url" THEN TerminalHttp(Last(trace)) ELSE SuccessGeo(Last(trace))))
    => /\ Len(trace) = slept + 1
       /\ Len(trace) <= MaxAttempts
       /\ IF fn = "check_url" THEN result = SuccessHttp(Last(trace))
          ELSE postcode = Last(trace).postcode /\ ~log_error

C4_Witness ==
    /\ fn = "lookup_postcode" /\ lpc = "returned" /\ retries = 3
    /\ Len(trace) = 3 /\ slept = 2
    /\ RetryableGeo(trace[1]) /\ RetryableGeo(trace[2]) /\ SuccessGeo(trace[3])
    /\ postcode = Postcode1

\* line 81: what lookup_postcode returns when the geocoder has no postcode
EmptyOutcome == << >>

\* C5 as stated: when the geocoder times out on all 3 attempts, the outcome
\* lookup_postcode returns differs from the Empty outcome.
C5_FailedDiffersFromEmpty ==
    (/\ fn = "lookup_postcode" /\ lpc = "returned" /\ retries = DefaultRetries
     /\ Len(trace) = 3
     /\ \A i \in 1..3 : trace[i] = GeoRaise("GeocoderTimedOut"))
    => postcode # EmptyOutcome

\* C6: a terminal response is the last thing the transport is asked: the
\* lookup has returned it (Success(code, label), resp. Empty) on the attempt
\* that received it, having slept only after the attempts before it.
\* ("captcha" is looked for in the body in any letter case.)
C6_TerminalEndsLookup ==
    InLookup =>
        \A i \in 1..Len(trace) :
            (IF fn = "check_url" THEN TerminalHttp(trace[i]) ELSE EmptyGeo(trace[i]))
            => /\ i = Len(trace) /\ attempt = i
               /\ lpc = "returned"
               /\ slept = i - 1
               /\ IF fn = "check_url" THEN result = SuccessHttp(trace[i])
                  ELSE postcode = << >> /\ ~log_error

C6_Witness ==
    /\ fn = "check_url" /\ max_retries = 3 /\ lpc = "returned"
    /\ Len(trace) = 1 /\ trace[1].status_code = 500 /\ slept = 0
    /\ result = [code |-> PyInt(500), comment |-> "Internal Server Error"]

C7_WithinBounds ==
    (InLookup /\ slept > 0) =>
        /\ wait >= 1 /\ wait <= 20
        /\ (fn = "check_url" /\ lpc = "loop") =>
              IF SoftFailureHttp(Last(trace)) THEN wait \in 5..10 ELSE wait \in 2..4
        /\ (fn = "lookup_postcode" /\ lpc = "loop") => wait = Min(20, 2 ^ attempt)

C7_NonDecreasing ==
    (fn = "lookup_postcode" /\ fn' = "lookup_postcode" /\ slept >= 1 /\ slept' = slept + 1)
    => wait' >= wait

\* C7: every backoff slept lies within 1..20 seconds (5..10 after a soft
\* failure and 2..4 after a transport error in check_url, min(20, 2^attempt)
\* in lookup_postcode), and within one lookup_postcode each backoff is at
\* least the one before it.
C7_Backoff == [](C7_WithinBounds) /\ [][C7_NonDecreasing]_vars

C7_Witness ==
    /\ fn = "lookup_postcode" /\ attempt = 5 /\ slept = 5 /\ wait = 20

\* C8 as stated: whatever the transport does, a batch that has ended has
\* looked up every identifier and recorded its outcome (one CSV row per
\* URL; every row visited and the workbook saved).
C8_BatchNeverAborted ==
    /\ (prog = "process_file" /\ pc = "done") =>
            {rows[i].URL : i \in 1..Len(rows)} = urls0 /\ Len(rows) = Cardinality(urls0)
    /\ (prog = "zipcode_finder" /\ exit_status # "running") =>
            row > max_row /\ saved

\* valid for the selected mode
ValidFor(all_files, p) == IF all_files THEN is_dir(p) ELSE is_file(p)
Declined(a) == Lower(Strip(a)) \in { <<"n">>, <<"n","o">> }

\* C9: validate_source prompts for a path at most 3 times, returns exactly
\* at the first answer valid for the mode, exits with status 1 after the
\* third invalid path without asking "Try again?", and after an earlier
\* invalid path exits with status 1 on "n"/"no" and prompts again otherwise.
C9_ValidateSource ==
    prog = "validate_source" =>
        /\ Len(inputs) <= 3 /\ Len(answers) <= 2
        /\ \A i \in 1..(Len(inputs) - 1) : ~ValidFor(check_all_files, inputs[i])
        /\ pc = "returned" <=> (Len(inputs) >= 1 /\ ValidFor(check_all_files, Last(inputs)))
        /\ pc = "returned" => source = Last(inputs) /\ exit_status = "running"
        /\ pc = "exited" <=> exit_status = "1"
        /\ (Len(inputs) = 3 /\ ~ValidFor(check_all_files, Last(inputs)))
                => pc = "exited" /\ Len(answers) = 2
        /\ \A j \in 1..Len(answers) :
                Declined(answers[j]) => j = Len(answers) /\ pc = "exited" /\ Len(inputs) = j
        /\ pc = "exited" => \/ Len(inputs) = 3
                            \/ Len(answers) = Len(inputs) /\ Declined(Last(answers))
        /\ pc = "again" => Len(answers) = Len(inputs) - 1 /\ Len(inputs) \in 1..2
        /\ pc = "prompt" => Len(answers) = Len(inputs)

C9_Witness ==
    /\ prog = "validate_source" /\ pc = "exited"
    /\ Len(inputs) = 3 /\ Len(answers) = 2 /\ exit_status = "1"

\* blank as the claim lists it: None, empty, or whitespace only
BlankZip(v) == v.t = "none" \/ (v.t = "str" /\ Strip(v.s) = << >>)
Visited(r) == r < row \/ (r = row /\ pc \in {"lookup", "crashed"})

\* C10 as stated: lookup_postcode is called for a row iff its zip cell is
\* blank (None, empty or whitespace only); other rows keep zip and fill; a
\* blank cell is filled and highlighted iff a non-empty postcode came back.
C10_LookupIffBlank ==
    (prog = "zipcode_finder" /\ pc # "done") =>
        \A r \in DataRows :
            /\ r \in looked <=> (Visited(r) /\ BlankZip(ws0[r].zip))
            /\ ~BlankZip(ws0[r].zip) => ws[r] = ws0[r]
            /\ ws[r].fill = "yellow" <=> (ws[r].zip # ws0[r].zip)
            /\ ws[r].zip # ws0[r].zip => Truthy(ws[r].zip)

====
